---- MODULE Spec2Model ----
(***************************************************************************)
(* Model of the Ethernet / IPv4 / TCP decoder of index.js.                 *)
(*                                                                         *)
(* JavaScript values are modelled as follows.                              *)
(*   - a string is a sequence of one-character strings;                    *)
(*   - a number is an integer; NaN, which only parseInt produces and only  *)
(*     as an array element, is a distinguished value outside the range     *)
(*     -255 .. 255 of the other array elements; ToInt32 and toString, the  *)
(*     two places that tell it apart, are applied to array elements only;  *)
(*   - the bitwise operators work on 32-bit two's complement integers and  *)
(*     return a signed value in -2^31 .. 2^31-1, as in JavaScript;         *)
(*   - a call either returns a value or throws: Return(v) / Throw(m).      *)
(***************************************************************************)
EXTENDS Integers, Sequences, FiniteSets, TLC

VARIABLES
  pc,        \* position of main
  hex,       \* main: const hex    (cleaned answer of rl.question)
  bytes,     \* main: const bytes  (completion of hexToBytes(hex))
  eth,       \* main: const eth    (completion of parseEthernetFrame)
  ip,        \* main: const ip     (completion of parseIPv4Packet)
  tcp,       \* main: const tcp    (completion of parseTCPSegment)
  calls,     \* the parsers main has invoked, in order
  out,       \* the sections / messages main has written with console.log
  rlOpen,    \* the readline interface is created and not closed
  outcome,   \* how the run of main ended ("running" while it has not)
  fn,        \* library run: the function applied last
  arg,       \* library run: its argument
  ret        \* library run: its completion

vars == <<pc, hex, bytes, eth, ip, tcp, calls, out, rlOpen, outcome, fn, arg, ret>>

mainVars == <<pc, hex, bytes, eth, ip, tcp, calls, out, rlOpen, outcome>>

fnVars == <<fn, arg, ret>>

---------------------------------------------------------------------------
(* JavaScript completions and numbers                                      *)

None == [tag |-> "none"]

Return(v) == [tag |-> "return", value |-> v]

Throw(m) == [tag |-> "throw", message |-> m]

NaN == -2147483647

\* ToInt32 of an array element: NaN becomes 0, every other element is an
\* integer of the int32 range already.
ToInt32(x) == IF x = NaN THEN 0 ELSE x

RECURSIVE Or32(_, _)
Or32(a, b) ==
  IF a = 0 THEN b
  ELSE IF b = 0 THEN a
  ELSE IF a = -1 \/ b = -1 THEN -1
  ELSE 2 * Or32(a \div 2, b \div 2) + (IF a % 2 = 1 \/ b % 2 = 1 THEN 1 ELSE 0)

RECURSIVE And32(_, _)
And32(a, b) ==
  IF a = 0 \/ b = 0 THEN 0
  ELSE IF a = -1 THEN b
  ELSE IF b = -1 THEN a
  ELSE 2 * And32(a \div 2, b \div 2) + (IF a % 2 = 1 /\ b % 2 = 1 THEN 1 ELSE 0)

\* x | y, both operands int32 already (the result of a bitwise operator, or
\* ToInt32 of an array element)
BitOr(x, y) == Or32(x, y)

\* x & mask, x an array element or the result of a bitwise operator on one
BitAnd(x, mask) == And32(ToInt32(x), mask)

\* x << n for 1 <= n <= 30: the low 32-n bits of x move up, bit 31 of the
\* result is its sign.
Shl(x, n) ==
  LET low == ToInt32(x) % (2 ^ (32 - n))
  IN  IF low >= 2 ^ (31 - n) THEN (low - 2 ^ (32 - n)) * (2 ^ n)
      ELSE low * (2 ^ n)

\* x >> n (sign-propagating)
Sar(x, n) == ToInt32(x) \div (2 ^ n)

---------------------------------------------------------------------------
(* Strings                                                                 *)

HexDigits == <<"0", "1", "2", "3", "4", "5", "6", "7",
               "8", "9", "a", "b", "c", "d", "e", "f">>

UpperOf == [c \in {"a", "b", "c", "d", "e", "f", "x", "g", "n"} |->
              CASE c = "a" -> "A" [] c = "b" -> "B" [] c = "c" -> "C"
                [] c = "d" -> "D" [] c = "e" -> "E" [] c = "f" -> "F"
                [] c = "x" -> "X" [] c = "g" -> "G" [] c = "n" -> "N"]

\* String.prototype.toUpperCase
toUpperCase(s) ==
  [i \in 1..Len(s) |-> IF s[i] \in DOMAIN UpperOf THEN UpperOf[s[i]] ELSE s[i]]

\* String.prototype.toLowerCase
toLowerCase(s) ==
  [i \in 1..Len(s) |->
     IF \E c \in DOMAIN UpperOf : UpperOf[c] = s[i]
     THEN CHOOSE c \in DOMAIN UpperOf : UpperOf[c] = s[i]
     ELSE s[i]]

WhiteSpace == {" ", "\t", "\n", "\r"}

\* s.replace(/\s+/g, '')
stripWhiteSpace(s) == SelectSeq(s, LAMBDA c : c \notin WhiteSpace)

\* the value of a hexadecimal digit of either case, -1 for any other character
DigitValue(c) ==
  LET l == toLowerCase(<<c>>)[1]
  IN  IF \E d \in 1..16 : HexDigits[d] = l
      THEN (CHOOSE d \in 1..16 : HexDigits[d] = l) - 1
      ELSE -1

RECURSIVE DigitsOf(_, _)
\* the digits of n > 0 in the radix, most significant first
DigitsOf(n, radix) ==
  IF n = 0 THEN <<>>
  ELSE Append(DigitsOf(n \div radix, radix), HexDigits[(n % radix) + 1])

\* Number.prototype.toString(radix)
toString(n, radix) ==
  IF n = NaN THEN <<"N", "a", "N">>
  ELSE IF n = 0 THEN <<"0">>
  ELSE IF n < 0 THEN <<"-">> \o DigitsOf(-n, radix)
  ELSE DigitsOf(n, radix)

RECURSIVE Fill(_, _)
Fill(n, c) == IF n <= 0 THEN <<>> ELSE <<c>> \o Fill(n - 1, c)

\* padStart left out: a one-digit byte stays one character long
padStart_Missing(s, width, c) == s

\* String.prototype.padStart(width, c)
padStart(s, width, c) == Fill(width - Len(s), c) \o s

RECURSIVE join(_, _)
\* Array.prototype.join(sep) of an array of strings
join(parts, sep) ==
  IF Len(parts) = 0 THEN <<>>
  ELSE IF Len(parts) = 1 THEN parts[1]
  ELSE parts[1] \o sep \o join(Tail(parts), sep)

\* Array.prototype.slice(start, end) for start, end >= 0 (0-based, end
\* exclusive), both clamped to the length
slice(a, start, end) ==
  LET s == IF start > Len(a) THEN Len(a) ELSE start
      e == IF end > Len(a) THEN Len(a) ELSE end
  IN  IF e <= s THEN <<>> ELSE [i \in 1..(e - s) |-> a[s + i]]

\* Array.prototype.slice(start): to the end of the array
sliceFrom(a, start) == slice(a, start, Len(a))

RECURSIVE ParsePrefix(_, _)
\* the value of the longest prefix of s made of hexadecimal digits, given
\* the value acc of the digits read so far
ParsePrefix(s, acc) ==
  IF Len(s) = 0 \/ DigitValue(s[1]) < 0 THEN acc
  ELSE ParsePrefix(Tail(s), acc * 16 + DigitValue(s[1]))

\* parseInt(s, 16): optional sign, optional 0x / 0X, then the longest prefix
\* of hexadecimal digits; NaN when that prefix is empty
parseInt16(s) ==
  LET sign   == IF Len(s) > 0 /\ s[1] = "-" THEN -1 ELSE 1
      s1     == IF Len(s) > 0 /\ s[1] \in {"-", "+"} THEN Tail(s) ELSE s
      s2     == IF Len(s1) >= 2 /\ s1[1] = "0" /\ s1[2] \in {"x", "X"}
                THEN Tail(Tail(s1)) ELSE s1
  IN  IF Len(s2) = 0 \/ DigitValue(s2[1]) < 0 THEN NaN
      ELSE sign * ParsePrefix(s2, 0)

RECURSIVE match12(_)
\* hex.match(/.{1,2}/g): the string cut into pairs, a last single character
\* when the length is odd; the empty sequence stands for null (no match)
match12(s) ==
  IF Len(s) = 0 THEN <<>>
  ELSE IF Len(s) <= 2 THEN <<s>>
  ELSE <<SubSeq(s, 1, 2)>> \o match12(SubSeq(s, 3, Len(s)))

---------------------------------------------------------------------------
(* Helper functions of index.js                                            *)

\* bytes.map(b => b.toString(16).padStart(2, '0').toUpperCase()).join(':')
bytesToMAC(b) ==
  join([i \in 1..Len(b) |-> toUpperCase(padStart(toString(b[i], 16), 2, "0"))],
       <<":">>)

\* bytes.map(b => b.toString(10)).join('.')
bytesToIP(b) ==
  join([i \in 1..Len(b) |-> toString(b[i], 10)], <<".">>)

\* hex.match(/.{1,2}/g).map(b => parseInt(b, 16)); match returns null for
\* the empty string and null.map throws a TypeError
hexToBytes(h) ==
  LET m == match12(h)
  IN  IF Len(m) = 0
      THEN Throw("TypeError: Cannot read properties of null (reading 'map')")
      ELSE Return([i \in 1..Len(m) |-> parseInt16(m[i])])

---------------------------------------------------------------------------
(* The three parsers.  b is a JavaScript array; b[i+1] is its element i.   *)

\* bytes[12] << 8 | bytes[13], and every other 16-bit big-endian field
be16(b, i) == BitOr(Shl(b[i + 1], 8), ToInt32(b[i + 2]))

\* (bytes[i] << 24) | (bytes[i+1] << 16) | (bytes[i+2] << 8) | bytes[i+3]
be32(b, i) ==
  BitOr(BitOr(BitOr(Shl(b[i + 1], 24), Shl(b[i + 2], 16)), Shl(b[i + 3], 8)),
        ToInt32(b[i + 4]))

parseEthernetFrame(b) ==
  IF Len(b) < 14 THEN Throw("Frame too short for valid Ethernet header")
  ELSE Return([destMAC |-> bytesToMAC(slice(b, 0, 6)),
               srcMAC  |-> bytesToMAC(slice(b, 6, 12)),
               type    |-> be16(b, 12),
               data    |-> sliceFrom(b, 14)])

\* the header taken to be 20 bytes whatever ihl says
ipv4Data_Fixed20(b, ihl) == sliceFrom(b, 20)

\* const data = bytes.slice(ihl * 4)
ipv4Data(b, ihl) == sliceFrom(b, ihl * 4)

\* the flags taken as the high nibble instead of the top 3 bits
ipv4Flags_Nibble(b) == Sar(b[7], 4)

\* const flags = bytes[6] >> 5
ipv4Flags(b) == Sar(b[7], 5)

parseIPv4Packet(b) ==
  IF Len(b) < 20 THEN Throw("Packet too short for valid IPv4 header")
  ELSE LET ihl == BitAnd(b[1], 15)
       IN  Return([version        |-> Sar(b[1], 4),
                   ihl            |-> ihl,
                   dscp           |-> Sar(b[2], 2),
                   ecn            |-> BitAnd(b[2], 3),
                   totalLength    |-> be16(b, 2),
                   identification |-> be16(b, 4),
                   flags          |-> ipv4Flags(b),
                   fragmentOffset |-> BitOr(Shl(BitAnd(b[7], 31), 8), ToInt32(b[8])),
                   ttl            |-> b[9],
                   protocol       |-> b[10],
                   checksum       |-> be16(b, 10),
                   srcIP          |-> bytesToIP(slice(b, 12, 16)),
                   dstIP          |-> bytesToIP(slice(b, 16, 20)),
                   data           |-> ipv4Data(b, ihl)])

\* the data offset taken in bytes instead of 32-bit words
tcpData_Unscaled(b, dataOffset) == sliceFrom(b, dataOffset)

\* const data = bytes.slice(dataOffset * 4)
tcpData(b, dataOffset) == sliceFrom(b, dataOffset * 4)

parseTCPSegment(b) ==
  IF Len(b) < 20 THEN Throw("Segment too short for valid TCP header")
  ELSE LET dataOffset == Sar(b[13], 4)
           flags      == BitAnd(b[14], 63)
       IN  Return([srcPort       |-> be16(b, 0),
                   dstPort       |-> be16(b, 2),
                   seqNum        |-> be32(b, 4),
                   ackNum        |-> be32(b, 8),
                   dataOffset    |-> dataOffset,
                   flags         |-> [urg |-> BitAnd(flags, 32) # 0,
                                      ack |-> BitAnd(flags, 16) # 0,
                                      psh |-> BitAnd(flags, 8) # 0,
                                      rst |-> BitAnd(flags, 4) # 0,
                                      syn |-> BitAnd(flags, 2) # 0,
                                      fin |-> BitAnd(flags, 1) # 0],
                   windowSize    |-> be16(b, 14),
                   tcpChecksum   |-> be16(b, 16),
                   urgentPointer |-> be16(b, 18),
                   data          |-> tcpData(b, dataOffset)])

---------------------------------------------------------------------------
(* Inputs.  The lines typed at the prompt are the hexadecimal text of       *)
(* frames laid out as Ethernet / IPv4 / TCP, in several spellings, and a   *)
(* few short texts; the buffers handed to the functions directly are       *)
(* arithmetic progressions of bytes.                                       *)

MaxLen == 58

MaxBuf == 24

FrameLens == {1, 13, 14, 33, 34, 53} \cup (54..MaxLen)

EtherTypes == {2048, 34997}

FirstBytes == {69, 70, 79, 64}

Protocols == {6, 17}

OffsetBytes == {80, 96, 240}

Seeds == {0, 128}

\* the frame of n bytes with the given etherType, first IPv4 byte, protocol
\* and TCP data-offset byte; the TCP header is laid where the IPv4 header
\* length puts it
Frame(n, et, b0, proto, ob, seed) ==
  LET t == 14 + (b0 % 16) * 4
  IN  [i \in 1..n |->
         LET o == i - 1
         IN  CASE o = 12 -> et \div 256
               [] o = 13 -> et % 256
               [] o = 14 -> b0
               [] o = 23 -> proto
               [] o = t + 4 -> (seed + 1) % 256
               [] o = t + 8 -> (seed + 127) % 256
               [] o = t + 12 -> ob
               [] OTHER -> (seed + 3 * o) % 256]

Frames ==
  { Frame(n, et, b0, proto, ob, seed) :
      n \in FrameLens, et \in EtherTypes, b0 \in FirstBytes,
      proto \in Protocols, ob \in OffsetBytes, seed \in Seeds }

RECURSIVE HexText(_)
\* the lower-case hexadecimal text of a sequence of bytes
HexText(b) ==
  IF Len(b) = 0 THEN <<>>
  ELSE <<HexDigits[(b[1] \div 16) + 1], HexDigits[(b[1] % 16) + 1]>>
       \o HexText(Tail(b))

RECURSIVE Spaced(_)
\* a text with a blank after every second character
Spaced(t) ==
  IF Len(t) <= 2 THEN t
  ELSE SubSeq(t, 1, 2) \o <<" ">> \o Spaced(SubSeq(t, 3, Len(t)))

\* the text with character k replaced by c
Replaced(t, k, c) == [i \in 1..Len(t) |-> IF i = k THEN c ELSE t[i]]

Spellings == {"lower", "upperSpaced", "odd", "nonHexFirst", "nonHexIPv4"}

Spell(t, how) ==
  CASE how = "lower" -> t
    [] how = "upperSpaced" -> Spaced(toUpperCase(t))
    [] how = "odd" -> SubSeq(t, 1, Len(t) - 1)
    [] how = "nonHexFirst" -> Replaced(t, 1, "g")
    [] how = "nonHexIPv4" -> Replaced(t, 29, "g")

ShortTexts ==
  { <<>>, <<" ", " ">>, <<"A", "B", " ", "C", "D", " ", "E">>,
    <<"0", "x">>, <<"-", "f">>, <<"1", "g">> }

Lines == { Spell(HexText(f), how) : f \in Frames, how \in Spellings } \cup ShortTexts

BufStarts == {0, 69, 79, 128, 255}

BufSteps == {0, 1, 37}

Progression(n, a, d) == [i \in 1..n |-> (a + d * (i - 1)) % 256]

Buffers == { Progression(n, a, d) : n \in 0..MaxBuf, a \in BufStarts, d \in BufSteps }

Addresses == { Progression(6, a, d) : a \in BufStarts, d \in BufSteps }

---------------------------------------------------------------------------
(* main                                                                    *)

\* the headings main writes before the fields of a decoded layer
EthSection == "=== Ethernet Frame ==="

IPv4Section == "=== IPv4 Packet ==="

TCPSection == "=== TCP Segment ==="

Init ==
  /\ pc = "question"
  /\ hex = <<>>
  /\ bytes = None
  /\ eth = None
  /\ ip = None
  /\ tcp = None
  /\ calls = <<>>
  /\ out = <<>>
  /\ rlOpen = TRUE
  /\ outcome = "running"
  /\ fn = "none"
  /\ arg = <<>>
  /\ ret = None

\* await rl.question(...), .replace(/\s+/g, ''), .toLowerCase()
Question ==
  /\ pc = "question"
  /\ \E line \in Lines : hex' = toLowerCase(stripWhiteSpace(line))
  /\ pc' = "hexToBytes"
  /\ UNCHANGED <<bytes, eth, ip, tcp, calls, out, rlOpen, outcome>>
  /\ UNCHANGED fnVars

\* const bytes = hexToBytes(hex), which returns
DecodeHex ==
  /\ pc = "hexToBytes"
  /\ hexToBytes(hex).tag = "return"
  /\ bytes' = hexToBytes(hex)
  /\ pc' = "checkLength"
  /\ UNCHANGED <<hex, eth, ip, tcp, calls, out, rlOpen, outcome>>
  /\ UNCHANGED fnVars

\* const bytes = hexToBytes(hex), which throws: main's promise is rejected
\* and nothing after the call runs
DecodeHexThrows ==
  /\ pc = "hexToBytes"
  /\ hexToBytes(hex).tag = "throw"
  /\ bytes' = hexToBytes(hex)
  /\ pc' = "done"
  /\ outcome' = "Rejected"
  /\ UNCHANGED <<hex, eth, ip, tcp, calls, out, rlOpen>>
  /\ UNCHANGED fnVars

\* if (bytes.length < 14) { console.log(...); rl.close(); return; }
FrameTooShort ==
  /\ pc = "checkLength"
  /\ Len(bytes.value) < 14
  /\ out' = Append(out, "Frame too short for valid Ethernet header")
  /\ rlOpen' = FALSE
  /\ outcome' = "FrameTooShort"
  /\ pc' = "done"
  /\ UNCHANGED <<hex, bytes, eth, ip, tcp, calls>>
  /\ UNCHANGED fnVars

\* const eth = parseEthernetFrame(bytes) and the report of the frame
Q1_ParseEthernet ==
  /\ pc = "checkLength"
  /\ ~(Len(bytes.value) < 14)
  /\ calls' = Append(calls, "parseEthernetFrame")
  /\ eth' = parseEthernetFrame(bytes.value)
  /\ IF eth'.tag = "return"
     THEN /\ out' = Append(out, EthSection)
          /\ pc' = "checkType"
          /\ outcome' = outcome
     ELSE /\ out' = out
          /\ pc' = "done"
          /\ outcome' = "Rejected"
  /\ UNCHANGED <<hex, bytes, ip, tcp, rlOpen>>
  /\ UNCHANGED fnVars

\* the return after the message left out: main goes on to parseIPv4Packet
NonIPv4_NoReturn ==
  /\ pc = "checkType"
  /\ eth.value.type # 2048
  /\ calls' = Append(calls, "parseIPv4Packet")
  /\ ip' = parseIPv4Packet(eth.value.data)
  /\ rlOpen' = FALSE
  /\ IF ip'.tag = "return"
     THEN /\ out' = out \o <<"Non-IPv4 Ethernet frame! Decoding not implemented.",
                              IPv4Section>>
          /\ pc' = "checkProtocol"
          /\ outcome' = outcome
     ELSE /\ out' = Append(out, "Non-IPv4 Ethernet frame! Decoding not implemented.")
          /\ pc' = "done"
          /\ outcome' = "Rejected"
  /\ UNCHANGED <<hex, bytes, eth, tcp>>
  /\ UNCHANGED fnVars

\* if (eth.type !== 0x0800) { console.log(...); rl.close(); return; }
NonIPv4 ==
  /\ pc = "checkType"
  /\ eth.value.type # 2048
  /\ out' = Append(out, "Non-IPv4 Ethernet frame! Decoding not implemented.")
  /\ rlOpen' = FALSE
  /\ outcome' = "StoppedAtEthernet"
  /\ pc' = "done"
  /\ UNCHANGED <<hex, bytes, eth, ip, tcp, calls>>
  /\ UNCHANGED fnVars

\* const ip = parseIPv4Packet(eth.data), which returns, and the report
Q2_ParseIPv4 ==
  /\ pc = "checkType"
  /\ eth.value.type = 2048
  /\ parseIPv4Packet(eth.value.data).tag = "return"
  /\ calls' = Append(calls, "parseIPv4Packet")
  /\ ip' = parseIPv4Packet(eth.value.data)
  /\ out' = Append(out, IPv4Section)
  /\ pc' = "checkProtocol"
  /\ UNCHANGED <<hex, bytes, eth, tcp, rlOpen, outcome>>
  /\ UNCHANGED fnVars

\* const ip = parseIPv4Packet(eth.data), which throws
Q2_ParseIPv4Throws ==
  /\ pc = "checkType"
  /\ eth.value.type = 2048
  /\ parseIPv4Packet(eth.value.data).tag = "throw"
  /\ calls' = Append(calls, "parseIPv4Packet")
  /\ ip' = parseIPv4Packet(eth.value.data)
  /\ outcome' = "Rejected"
  /\ pc' = "done"
  /\ UNCHANGED <<hex, bytes, eth, tcp, out, rlOpen>>
  /\ UNCHANGED fnVars

\* if (ip.protocol !== 6) { console.log(...); rl.close(); return; }
NonTCP ==
  /\ pc = "checkProtocol"
  /\ ip.value.protocol # 6
  /\ out' = Append(out, "Non-TCP Protocol detected. Decoding not implemented for this protocol.")
  /\ rlOpen' = FALSE
  /\ outcome' = "StoppedAtIPv4"
  /\ pc' = "done"
  /\ UNCHANGED <<hex, bytes, eth, ip, tcp, calls>>
  /\ UNCHANGED fnVars

\* const tcp = parseTCPSegment(ip.data), which returns, the report (its last
\* line, Buffer.from(tcp.data, 'hex').toString('utf8'), takes the array as
\* it is and does not throw) and rl.close()
Q3_ParseTCP ==
  /\ pc = "checkProtocol"
  /\ ip.value.protocol = 6
  /\ parseTCPSegment(ip.value.data).tag = "return"
  /\ calls' = Append(calls, "parseTCPSegment")
  /\ tcp' = parseTCPSegment(ip.value.data)
  /\ out' = Append(out, TCPSection)
  /\ rlOpen' = FALSE
  /\ outcome' = "Decoded"
  /\ pc' = "done"
  /\ UNCHANGED <<hex, bytes, eth, ip>>
  /\ UNCHANGED fnVars

\* the error of parseTCPSegment caught and the run reported as decoded
Q3_ParseTCPThrows_Swallowed ==
  /\ pc = "checkProtocol"
  /\ ip.value.protocol = 6
  /\ parseTCPSegment(ip.value.data).tag = "throw"
  /\ calls' = Append(calls, "parseTCPSegment")
  /\ tcp' = Return([data |-> <<>>])
  /\ out' = Append(out, TCPSection)
  /\ rlOpen' = FALSE
  /\ outcome' = "Decoded"
  /\ pc' = "done"
  /\ UNCHANGED <<hex, bytes, eth, ip>>
  /\ UNCHANGED fnVars

\* const tcp = parseTCPSegment(ip.data), which throws
Q3_ParseTCPThrows ==
  /\ pc = "checkProtocol"
  /\ ip.value.protocol = 6
  /\ parseTCPSegment(ip.value.data).tag = "throw"
  /\ calls' = Append(calls, "parseTCPSegment")
  /\ tcp' = parseTCPSegment(ip.value.data)
  /\ outcome' = "Rejected"
  /\ pc' = "done"
  /\ UNCHANGED <<hex, bytes, eth, ip, out, rlOpen>>
  /\ UNCHANGED fnVars

Next ==
  \/ Question
  \/ DecodeHex
  \/ DecodeHexThrows
  \/ FrameTooShort
  \/ Q1_ParseEthernet
  \/ NonIPv4
  \/ Q2_ParseIPv4
  \/ Q2_ParseIPv4Throws
  \/ NonTCP
  \/ Q3_ParseTCP
  \/ Q3_ParseTCPThrows

Spec == Init /\ [][Next]_vars

---------------------------------------------------------------------------
(* The functions applied directly to buffers                               *)

ApplyParseEthernetFrame ==
  \E b \in Buffers :
    /\ fn = "none"
    /\ UNCHANGED mainVars
    /\ fn' = "parseEthernetFrame"
    /\ arg' = b
    /\ ret' = parseEthernetFrame(b)

ApplyParseIPv4Packet ==
  \E b \in Buffers :
    /\ fn = "none"
    /\ UNCHANGED mainVars
    /\ fn' = "parseIPv4Packet"
    /\ arg' = b
    /\ ret' = parseIPv4Packet(b)

ApplyParseTCPSegment ==
  \E b \in Buffers :
    /\ fn = "none"
    /\ UNCHANGED mainVars
    /\ fn' = "parseTCPSegment"
    /\ arg' = b
    /\ ret' = parseTCPSegment(b)

\* hexToBytes of the 12-digit text of an address, bytesToMAC of the result,
\* and hexToBytes of that with the colons removed
ApplyRoundTrip ==
  \E a \in Addresses, upper \in BOOLEAN :
    LET text == IF upper THEN toUpperCase(HexText(a)) ELSE HexText(a)
        dec  == hexToBytes(text)
        mac  == bytesToMAC(dec.value)
    IN  /\ fn = "none"
        /\ UNCHANGED mainVars
        /\ fn' = "roundTrip"
        /\ arg' = a
        /\ ret' = [text |-> text, decoded |-> dec, mac |-> mac,
                   back |-> hexToBytes(SelectSeq(mac, LAMBDA c : c # ":"))]

NextFn ==
  \/ ApplyParseEthernetFrame
  \/ ApplyParseIPv4Packet
  \/ ApplyParseTCPSegment
  \/ ApplyRoundTrip

SpecFn == Init /\ [][NextFn]_vars

---------------------------------------------------------------------------
(* Properties                                                              *)

Max(a, b) == IF a >= b THEN a ELSE b

\* the buffer main decoded is at least 14+20+20 bytes long, carries
\* etherType 0x0800 in bytes 12-13 and protocol 6 in byte 23
FullStackInput ==
  /\ bytes.tag = "return"
  /\ Len(bytes.value) >= 54
  /\ bytes.value[13] = 8
  /\ bytes.value[14] = 0
  /\ bytes.value[24] = 6

\* C1 as stated: for every input buffer of at least 14+20+20 bytes with
\* etherType 0x0800 and protocol 6 the run of main succeeds, returns all
\* three layers, and the TCP payload length is
\* inputLength - (14 + ihl*4 + dataOffset*4).
C1_AsStated ==
  (pc = "done" /\ FullStackInput) =>
    /\ outcome = "Decoded"
    /\ eth.tag = "return" /\ ip.tag = "return" /\ tcp.tag = "return"
    /\ Len(tcp.value.data) =
         Len(bytes.value) - (14 + ip.value.ihl * 4 + tcp.value.dataOffset * 4)

\* C1 amended: for every such buffer the Ethernet and IPv4 layers are
\* returned; when at least 20 bytes follow the IPv4 header
\* (inputLength >= 14 + ihl*4 + 20) the run succeeds, returns all three
\* layers, and the TCP payload length is
\* max(0, inputLength - (14 + ihl*4 + dataOffset*4)); otherwise the run
\* ends with the TCP truncation error.
C1_Amended ==
  (pc = "done" /\ FullStackInput) =>
    /\ eth.tag = "return" /\ ip.tag = "return"
    /\ IF Len(bytes.value) >= 14 + ip.value.ihl * 4 + 20
       THEN /\ outcome = "Decoded"
            /\ tcp.tag = "return"
            /\ Len(tcp.value.data) =
                 Max(0, Len(bytes.value)
                          - (14 + ip.value.ihl * 4 + tcp.value.dataOffset * 4))
       ELSE /\ outcome = "Rejected"
            /\ tcp = Throw("Segment too short for valid TCP header")

C1_Witness ==
  /\ pc = "done" /\ FullStackInput
  /\ outcome = "Decoded"
  /\ ip.value.ihl = 5 /\ tcp.value.dataOffset = 5
  /\ Len(tcp.value.data) > 0

IsPrefix(s, t) == Len(s) <= Len(t) /\ \A i \in 1..Len(s) : s[i] = t[i]

Called(f) == \E i \in 1..Len(calls) : calls[i] = f

\* C2: the parsers are invoked in the order Ethernet, IPv4, TCP, each at
\* most once; when main has ended, parseIPv4Packet has run iff
\* parseEthernetFrame returned an etherType of 0x0800 and parseTCPSegment
\* has run iff parseIPv4Packet returned protocol 6; a tag that does not
\* match ends the run at that layer without an error, the readline
\* interface closed and every layer decoded so far reported.
C2_ParserOrder ==
  /\ IsPrefix(calls, <<"parseEthernetFrame", "parseIPv4Packet", "parseTCPSegment">>)
  /\ pc = "done" =>
       /\ Called("parseIPv4Packet") <=> (eth.tag = "return" /\ eth.value.type = 2048)
       /\ Called("parseTCPSegment") <=> (ip.tag = "return" /\ ip.value.protocol = 6)
       /\ (eth.tag = "return" /\ eth.value.type # 2048) =>
            /\ outcome = "StoppedAtEthernet"
            /\ ~rlOpen
            /\ ip = None /\ tcp = None
            /\ out = <<EthSection, "Non-IPv4 Ethernet frame! Decoding not implemented.">>
       /\ (ip.tag = "return" /\ ip.value.protocol # 6) =>
            /\ outcome = "StoppedAtIPv4"
            /\ ~rlOpen
            /\ eth.tag = "return" /\ tcp = None
            /\ out = <<EthSection, IPv4Section,
                       "Non-TCP Protocol detected. Decoding not implemented for this protocol.">>

C2_Witness ==
  /\ pc = "done"
  /\ outcome = "StoppedAtIPv4"
  /\ calls = <<"parseEthernetFrame", "parseIPv4Packet">>

\* the number of bytes the cleaned text of the input line spells
InputLength == (Len(hex) + 1) \div 2

\* C3 as stated: for every input buffer shorter than 14 bytes, the empty
\* one included, decoding ends with the truncated-frame error and neither
\* parseIPv4Packet nor parseTCPSegment is attempted.
C3_AsStated ==
  (pc = "done" /\ InputLength < 14) =>
    /\ outcome = "FrameTooShort"
    /\ out = <<"Frame too short for valid Ethernet header">>
    /\ ~Called("parseIPv4Packet") /\ ~Called("parseTCPSegment")

\* C4: when parseIPv4Packet (resp. parseTCPSegment) is handed fewer than 20
\* bytes, the run ends at once with that parser's truncation error, no
\* record of the failing layer or of a later one exists, and the layers
\* decoded before it stay reported.
C4_TruncationAborts ==
  pc = "done" =>
    /\ (eth.tag = "return" /\ eth.value.type = 2048 /\ Len(eth.value.data) < 20) =>
         /\ outcome = "Rejected"
         /\ ip = Throw("Packet too short for valid IPv4 header")
         /\ tcp = None /\ ~Called("parseTCPSegment")
         /\ out = <<EthSection>>
    /\ (ip.tag = "return" /\ ip.value.protocol = 6 /\ Len(ip.value.data) < 20) =>
         /\ outcome = "Rejected"
         /\ tcp = Throw("Segment too short for valid TCP header")
         /\ eth.tag = "return"
         /\ out = <<EthSection, IPv4Section>>

C4_Witness ==
  /\ pc = "done"
  /\ ip.tag = "return" /\ ip.value.protocol = 6 /\ Len(ip.value.data) < 20
  /\ tcp.tag = "throw"

IsHexDigit(c) == DigitValue(c) >= 0

MalformedHex == Len(hex) % 2 = 1 \/ \E i \in 1..Len(hex) : ~IsHexDigit(hex[i])

\* C5 as stated: whenever the cleaned text has odd length or holds a
\* character that is no hexadecimal digit, hexToBytes fails, no byte buffer
\* is produced and no parser runs.
C5_AsStated ==
  (pc \notin {"question", "hexToBytes"} /\ MalformedHex) =>
    /\ bytes.tag = "throw"
    /\ calls = <<>>

\* C6: for every buffer of at least 20 bytes parseIPv4Packet (resp.
\* parseTCPSegment) returns, and its data is the suffix of the buffer from
\* offset ihl*4 (resp. dataOffset*4): of length max(0, length - offset),
\* empty when the offset exceeds the length.
C6_PayloadIsSuffix ==
  (fn \in {"parseIPv4Packet", "parseTCPSegment"} /\ Len(arg) >= 20) =>
    /\ ret.tag = "return"
    /\ LET off == IF fn = "parseIPv4Packet" THEN ret.value.ihl * 4
                  ELSE ret.value.dataOffset * 4
           data == ret.value.data
       IN  /\ off >= 0
           /\ Len(data) = Max(0, Len(arg) - off)
           /\ \A i \in 1..Len(data) : data[i] = arg[off + i]

C6_Witness ==
  /\ fn = "parseTCPSegment" /\ Len(arg) >= 20
  /\ ret.tag = "return"
  /\ ret.value.dataOffset * 4 > Len(arg)
  /\ ret.value.data = <<>>

\* x is the unsigned big-endian 32-bit value of the 4 elements of b from
\* offset i: x = b0*2^24 + b1*2^16 + b2*2^8 + b3, in 0 .. 2^32-1
IsUnsignedBE32(x, b, i) ==
  /\ x >= 0
  /\ x \div 16777216 = b[i + 1]
  /\ x % 16777216 = b[i + 2] * 65536 + b[i + 3] * 256 + b[i + 4]

\* C7 as stated: for every TCP segment of at least 20 bytes seqNum and
\* ackNum are the unsigned big-endian 32-bit values of bytes 4-7 and 8-11.
C7_AsStated ==
  (fn = "parseTCPSegment" /\ Len(arg) >= 20) =>
    /\ ret.tag = "return"
    /\ IsUnsignedBE32(ret.value.seqNum, arg, 4)
    /\ IsUnsignedBE32(ret.value.ackNum, arg, 8)

\* C8: for every IPv4 buffer of at least 20 bytes the packed fields
\* partition their bytes: version*16 + ihl is byte 0, dscp*4 + ecn is byte 1,
\* flags*8192 + fragmentOffset is the big-endian value of bytes 6-7, with
\* flags in 0..7 and fragmentOffset in 0..8191.
C8_BitFieldsPartition ==
  (fn = "parseIPv4Packet" /\ Len(arg) >= 20) =>
    /\ ret.tag = "return"
    /\ ret.value.version * 16 + ret.value.ihl = arg[1]
    /\ ret.value.ihl \in 0..15
    /\ ret.value.dscp * 4 + ret.value.ecn = arg[2]
    /\ ret.value.ecn \in 0..3
    /\ ret.value.flags * 8192 + ret.value.fragmentOffset = arg[7] * 256 + arg[8]
    /\ ret.value.flags \in 0..7
    /\ ret.value.fragmentOffset \in 0..8191

C8_Witness ==
  /\ fn = "parseIPv4Packet" /\ Len(arg) >= 20
  /\ ret.tag = "return"
  /\ ret.value.flags > 0 /\ ret.value.flags < 7
  /\ ret.value.fragmentOffset > 255
  /\ ret.value.version > 0 /\ ret.value.ihl > 0

UpperChar(c) == IF c \in DOMAIN UpperOf THEN UpperOf[c] ELSE c

\* C9: for every 6-byte address, hexToBytes of its 12-digit text gives the
\* address, bytesToMAC of that is the text in upper case, two digits a byte,
\* colon-separated, and hexToBytes of it with the colons removed gives the
\* address again.
C9_RoundTrip ==
  fn = "roundTrip" =>
    /\ ret.decoded = Return(arg)
    /\ Len(ret.mac) = 17
    /\ \A i \in 1..6 :
         /\ ret.mac[3 * i - 2] = UpperChar(ret.text[2 * i - 1])
         /\ ret.mac[3 * i - 1] = UpperChar(ret.text[2 * i])
         /\ i < 6 => ret.mac[3 * i] = ":"
    /\ ret.back = Return(arg)

C9_Witness ==
  /\ fn = "roundTrip"
  /\ \E i \in 1..6 : arg[i] < 16
  /\ \E i \in 1..6 : arg[i] % 16 >= 10
  /\ ret.text # toUpperCase(ret.text)
  /\ ret.back = Return(arg)

\* C10 as stated: a run of main that has read its line ends in exactly one
\* of the outcomes and has closed the readline interface by then, also when
\* hexToBytes or a parser throws.
C10_AsStated ==
  pc = "done" =>
    /\ outcome \in {"FrameTooShort", "StoppedAtEthernet", "StoppedAtIPv4",
                    "Decoded", "Rejected"}
    /\ ~rlOpen

====
